---------------------------- MODULE Spec2Model ----------------------------
(***************************************************************************)
(* A model of the country explorer: the bulk country load and the          *)
(* resolution of a clicked boundary feature (WorldMap.tsx, Index.tsx),     *)
(* the analytics service with its time-bounded cache and the enrichment    *)
(* service (DataVisualizations.tsx), and the selection flow of the page    *)
(* (Index.tsx).                                                            *)
(*                                                                         *)
(* A JavaScript string is a sequence of one-character strings, so that     *)
(* case folding and substring search are computed and not assumed.         *)
(***************************************************************************)
EXTENDS Integers, Sequences, FiniteSets, TLC

VARIABLES
    countries,        \* WorldMap: useState<Country[]>([])
    loadPc,           \* position of fetchCountries: primary, fallback, done
    attempts,         \* outcomes of the load's network calls, in order
    feature,          \* properties of the boundary feature under the pointer
    click,            \* outcome of the last click handler that ran
    now,              \* Date.now(), in minutes
    cache,            \* AnalyticsDataService.cache: key -> entries (0 or 1)
    pending,          \* analytics fetches suspended at their network call
    log,              \* analytics fetches that have settled, oldest first
    response,         \* what the network call of the latest resumed fetch came to
    joint,            \* the Promise.all of a component's fetch effect
    factbookCache,    \* CountryDataService.factbookCache
    selectCalls,      \* the countries handleCountrySelect was called with, in order
    selections,       \* handleCountrySelect calls suspended at their await
    selectedCountry,  \* Index: useState<Country | null>(null)
    settled,          \* fetchAdditionalData calls that have settled, oldest first
    text,             \* a text of a factbook document
    parsed,           \* the field a parse function has extracted from text
    geoRuns,          \* the country list each run of the layer effect closed over
    geoPending,       \* fetchGeo calls suspended at their fetch
    mapLayers,        \* the feature layers attached to the map, in order of addTo
    geoLayerRef       \* geoLayerRef.current: the run of its layer, 0 for null

vars == <<countries, loadPc, attempts, feature, click, now, cache, pending, log,
          response, joint, factbookCache, selectCalls, selections,
          selectedCountry, settled, text, parsed, geoRuns, geoPending,
          mapLayers, geoLayerRef>>

resolveVars == <<countries, loadPc, attempts, feature, click>>
analyticsVars == <<now, cache, pending, log, response, joint>>
selectVars == <<factbookCache, selectCalls, selections, selectedCountry, settled>>
parseVars == <<text, parsed>>
geoVars == <<geoRuns, geoPending, mapLayers, geoLayerRef>>

(***************************************************************************)
(* Strings                                                                 *)
(***************************************************************************)
UpperLetters ==
    << "A", "B", "C", "D", "E", "F", "G", "H", "I", "J", "K", "L", "M",
       "N", "O", "P", "Q", "R", "S", "T", "U", "V", "W", "X", "Y", "Z" >>

LowerLetters ==
    << "a", "b", "c", "d", "e", "f", "g", "h", "i", "j", "k", "l", "m",
       "n", "o", "p", "q", "r", "s", "t", "u", "v", "w", "x", "y", "z" >>

upperOf ==
    [c \in {LowerLetters[i] : i \in 1..26} |->
        UpperLetters[CHOOSE i \in 1..26 : LowerLetters[i] = c]]

lowerOf ==
    [c \in {UpperLetters[i] : i \in 1..26} |->
        LowerLetters[CHOOSE i \in 1..26 : UpperLetters[i] = c]]

toUpperChar(c) == IF c \in DOMAIN upperOf THEN upperOf[c] ELSE c

toLowerChar(c) == IF c \in DOMAIN lowerOf THEN lowerOf[c] ELSE c

toUpperCase(s) == [i \in 1..Len(s) |-> toUpperChar(s[i])]

toLowerCase(s) == [i \in 1..Len(s) |-> toLowerChar(s[i])]

\* String.prototype.includes: t occurs in s as a contiguous substring.
includes(s, t) ==
    \E i \in 0..(Len(s) - Len(t)) : SubSeq(s, i + 1, i + Len(t)) = t

\* Array.prototype.find: the index of the first element satisfying P, 0 for
\* undefined.
find(seq, P(_)) ==
    IF \E i \in 1..Len(seq) : P(seq[i])
    THEN CHOOSE i \in 1..Len(seq) :
             P(seq[i]) /\ \A j \in 1..(i - 1) : ~P(seq[j])
    ELSE 0

(***************************************************************************)
(* The country list and the boundary features                              *)
(***************************************************************************)
\* cca3 codes of the records an endpoint may serve (two letters stand for
\* the three of the real codes).
RegCodes == {<<"A", "B">>, <<"B", "A">>}

\* name.common and name.official; some records carry an empty official name.
RegCommon == {<<"a">>, <<"a", "b">>}
RegOfficial == {<<>>, <<"b", "a">>}

Country == [cca3 : RegCodes, common : RegCommon, official : RegOfficial]

\* A served country list: any order, codes unique.
RECURSIVE ListsOver(_, _)
ListsOver(S, n) ==
    IF n = 0 THEN {<<>>}
    ELSE LET shorter == ListsOver(S, n - 1)
         IN  shorter \cup
             {Append(l, c) : l \in {x \in shorter : Len(x) = n - 1}, c \in S}

UniqueCodes(l) ==
    \A i, j \in 1..Len(l) : i # j => l[i].cca3 # l[j].cca3

CountryLists ==
    {l \in ListsOver(Country, Cardinality(RegCodes)) : UniqueCodes(l)}

\* Property keys the click handlers read, in the order they are tried.
CodeKeys == <<"ISO_A3", "ADM0_A3", "ISO_A3_EH", "ADM0_A3_US">>
NameKeys == <<"NAME", "ADMIN", "NAME_EN", "name">>

KeySet(keys) == {keys[i] : i \in 1..Len(keys)}

\* Values a boundary dataset carries under a code key and under a name key.
FeatCodes == {<<"a", "b">>, <<"B", "A">>, <<"-", "9">>}
FeatNames == {<<"A">>, <<"A", "B">>, <<"b">>, <<"c">>}

\* The number of identifying properties a feature carries at most.
MaxProps == 2

\* A property bag: a function from the keys that are present to their values.
Bags(keys, vals) ==
    UNION {[K -> vals] : K \in SUBSET KeySet(keys)}

Features ==
    {f \in [code : Bags(CodeKeys, FeatCodes), name : Bags(NameKeys, FeatNames)] :
        Cardinality(DOMAIN f.code) + Cardinality(DOMAIN f.name) <= MaxProps}

\* feature.properties?.K1 || feature.properties?.K2 || ...: the value of the
\* first key that is present and truthy (a non-empty string), <<>> standing
\* for the falsy result.
FirstTruthy(bag, keys) ==
    LET hit == {i \in 1..Len(keys) : keys[i] \in DOMAIN bag /\ bag[keys[i]] # <<>>}
    IN  IF hit = {} THEN <<>>
        ELSE bag[keys[CHOOSE i \in hit : \A j \in hit : i <= j]]

(***************************************************************************)
(* Network outcomes                                                        *)
(***************************************************************************)
\* What one fetch() of a JSON endpoint can come to:
\*   reject       the fetch promise rejects (transport error)
\*   status       a non-OK status; the body is the host's error page, which
\*                response.json() cannot parse
\*   unparseable  an OK status with a body that is not JSON
\*   object       an OK status with JSON that is not an array
\*   array        an OK status with a JSON array
FailureKinds == {"reject", "status", "unparseable", "object"}

ok(net) == net.kind \notin {"reject", "status"}

\* response.json() rejects on a body that is not JSON.
jsonRejects(net) == net.kind \in {"status", "unparseable"}

isArray(net) == net.kind = "array"

CountryResponses ==
    [kind : FailureKinds, list : {<<>>}] \cup [kind : {"array"}, list : CountryLists]

(***************************************************************************)
(* The bulk country load (fetchCountries)                                  *)
(***************************************************************************)
\* The fallback dataset's records, cut down to the fields of Country.
mapCountry(c) == [cca3 |-> c.cca3, common |-> c.common, official |-> c.official]

\* A load that requests the fallback dataset whatever the primary endpoint
\* answered.
FetchCountriesPrimaryThenFallback(net) ==
    /\ loadPc = "primary"
    /\ attempts' = Append(attempts, net.kind)
    /\ loadPc' = "fallback"
    /\ IF ~ok(net) \/ jsonRejects(net) \/ ~isArray(net)
       THEN UNCHANGED countries
       ELSE countries' = net.list
    /\ UNCHANGED <<feature, click, analyticsVars, selectVars, parseVars, geoVars>>

\* The primary endpoint has answered.  Anything but an OK status with a JSON
\* array throws into the catch block, which requests the fallback dataset.
FetchCountriesPrimary(net) ==
    /\ loadPc = "primary"
    /\ attempts' = Append(attempts, net.kind)
    /\ IF ~ok(net) \/ jsonRejects(net) \/ ~isArray(net)
       THEN /\ loadPc' = "fallback"
            /\ UNCHANGED countries
       ELSE /\ countries' = net.list
            /\ loadPc' = "done"
    /\ UNCHANGED <<feature, click, analyticsVars, selectVars, parseVars, geoVars>>

\* A fallback that, like the analytics service, answers a failure of both
\* endpoints with a bundled list instead of the empty one.
FetchCountriesFallbackBundled(net) ==
    /\ loadPc = "fallback"
    /\ attempts' = Append(attempts, net.kind)
    /\ countries' =
           IF isArray(net)
           THEN [i \in 1..Len(net.list) |-> mapCountry(net.list[i])]
           ELSE <<[cca3 |-> <<"A", "B">>, common |-> <<"a">>, official |-> <<>>]>>
    /\ loadPc' = "done"
    /\ UNCHANGED <<feature, click, analyticsVars, selectVars, parseVars, geoVars>>

\* The fallback endpoint has answered.  Its status is not looked at: a
\* rejected fetch or json() ends in the inner catch and setCountries([]), a
\* body that is not an array maps to [].
FetchCountriesFallback(net) ==
    /\ loadPc = "fallback"
    /\ attempts' = Append(attempts, net.kind)
    /\ IF net.kind = "reject" \/ jsonRejects(net)
       THEN countries' = <<>>
       ELSE countries' =
                IF isArray(net)
                THEN [i \in 1..Len(net.list) |-> mapCountry(net.list[i])]
                ELSE <<>>
    /\ loadPc' = "done"
    /\ UNCHANGED <<feature, click, analyticsVars, selectVars, parseVars, geoVars>>

(***************************************************************************)
(* Feature resolution (the click handlers)                                 *)
(***************************************************************************)
\* A code comparison that forgets to fold the case of the feature's code.
codeMatchCaseSensitive(c, iso3) == toUpperCase(c.cca3) = iso3

\* countries.find((c) => c.cca3?.toUpperCase() === String(iso3).toUpperCase())
codeMatch(c, iso3) == toUpperCase(c.cca3) = toUpperCase(iso3)

\* [c.name.common, c.name.official].filter(Boolean).some((n) => ...)
nameMatch(c, countryName) ==
    \E n \in {c.common, c.official} \ {<<>>} :
        \/ toLowerCase(n) = toLowerCase(countryName)
        \/ includes(toLowerCase(countryName), toLowerCase(n))
        \/ includes(toLowerCase(n), toLowerCase(countryName))

\* A handler that consults the names before the code.
matchedNameFirst(f, cs) ==
    LET iso3 == FirstTruthy(f.code, CodeKeys)
        countryName == FirstTruthy(f.name, NameKeys)
        byName == IF countryName # <<>> /\ Len(cs) > 0
                  THEN LET Q(c) == nameMatch(c, countryName) IN find(cs, Q)
                  ELSE 0
    IN  IF byName # 0 THEN byName
        ELSE IF iso3 # <<>> /\ Len(cs) > 0
             THEN LET P(c) == codeMatch(c, iso3) IN find(cs, P)
             ELSE 0

\* A handler that keeps the last matching record of a tier instead of the
\* first.
matchedLast(f, cs) ==
    LET iso3 == FirstTruthy(f.code, CodeKeys)
        last(S) == IF S = {} THEN 0 ELSE CHOOSE i \in S : \A j \in S : j <= i
        byCode == IF iso3 # <<>> /\ Len(cs) > 0
                  THEN last({i \in 1..Len(cs) : codeMatch(cs[i], iso3)})
                  ELSE 0
        countryName == FirstTruthy(f.name, NameKeys)
    IN  IF byCode # 0 THEN byCode
        ELSE IF countryName # <<>> /\ Len(cs) > 0
             THEN last({i \in 1..Len(cs) : nameMatch(cs[i], countryName)})
             ELSE 0

\* The record the Leaflet click handler passes on, as an index into cs
\* (0: matched stays undefined).
matched(f, cs) ==
    LET iso3 == FirstTruthy(f.code, CodeKeys)
        byCode == IF iso3 # <<>> /\ Len(cs) > 0
                  THEN LET P(c) == codeMatch(c, iso3) IN find(cs, P)
                  ELSE 0
        countryName == FirstTruthy(f.name, NameKeys)
    IN  IF byCode # 0 THEN byCode
        ELSE IF countryName # <<>> /\ Len(cs) > 0
             THEN LET Q(c) == nameMatch(c, countryName) IN find(cs, Q)
             ELSE 0

\* layer.on('click', ...) of the Leaflet map.
WorldMapClick ==
    /\ LET m == matched(feature, countries)
       IN  click' = [handler |-> "WorldMap",
                     against |-> countries,
                     threw |-> FALSE,
                     calls |-> IF m = 0 THEN <<>> ELSE <<countries[m]>>]
    /\ UNCHANGED <<countries, loadPc, attempts, feature, analyticsVars, selectVars, parseVars, geoVars>>

\* The callback of CountryLayer's find.
layerMatch(c, countryName) ==
    \/ includes(toLowerCase(c.common), toLowerCase(countryName))
    \/ includes(toLowerCase(countryName), toLowerCase(c.common))
    \/ includes(toLowerCase(c.official), toLowerCase(countryName))

\* The callback reads countryName.toLowerCase(): with feature.properties.NAME
\* undefined the first record it is called on raises a TypeError.  On an
\* empty list the callback never runs.
layerThrows(f, cs) == "NAME" \notin DOMAIN f.name /\ Len(cs) > 0

layerMatched(f, cs) ==
    IF "NAME" \notin DOMAIN f.name THEN 0
    ELSE LET P(c) == layerMatch(c, f.name["NAME"]) IN find(cs, P)

\* click: of CountryLayer.onEachFeature; countries is the list it is given.
CountryLayerClick ==
    /\ LET m == layerMatched(feature, countries)
       IN  click' = [handler |-> "CountryLayer",
                     against |-> countries,
                     threw |-> layerThrows(feature, countries),
                     calls |-> IF m = 0 \/ layerThrows(feature, countries)
                               THEN <<>> ELSE <<countries[m]>>]
    /\ UNCHANGED <<countries, loadPc, attempts, feature, analyticsVars, selectVars, parseVars, geoVars>>

NoClick == [handler |-> "none", against |-> <<>>, threw |-> FALSE, calls |-> <<>>]

(***************************************************************************)
(* The analytics service: data                                             *)
(***************************************************************************)
\* CACHE_DURATION, in minutes (1000 * 60 * 30 ms).
CACHE_DURATION == 30

\* .slice(0, 10)
TopN == 10

\* The clock advances by this many minutes at a time, up to MaxTime.
TickStep == 15
MaxTime == 30

\* Effect runs (component mounts) in one behaviour.
MaxMounts == 2

\* Array.prototype.sort by an integer key, ascending: the sort is stable, so
\* element i goes after every element with a smaller key and every earlier
\* element with an equal key.
sort(seq, key(_)) ==
    LET n == Len(seq)
        rank(i) == 1 + Cardinality({j \in 1..n :
                           \/ key(seq[j]) < key(seq[i])
                           \/ key(seq[j]) = key(seq[i]) /\ j < i})
    IN  [p \in 1..n |-> seq[CHOOSE i \in 1..n : rank(i) = p]]

\* Array.prototype.filter
filter(seq, P(_)) == SelectSeq(seq, P)

\* .slice(0, n)
slice(seq, n) == SubSeq(seq, 1, IF Len(seq) < n THEN Len(seq) ELSE n)

\* (a, b) => b.value - a.value
byValueDesc(a) == 0 - a.value

\* Items of the REST Countries payload: cca3 ("" for none), population, and
\* whether the item has a name object (country.name.common is read).
PopItem(code, population, named) ==
    [cca3 |-> code, population |-> population, named |-> named]

PopBodies ==
    { <<PopItem("BRA", 5, TRUE), PopItem("ATA", 0, TRUE), PopItem("IND", 9, TRUE),
        PopItem("", 4, TRUE), PopItem("USA", 7, TRUE)>>,
      [i \in 1..(TopN + 1) |-> PopItem("C", i, TRUE)],
      <<PopItem("IND", 9, TRUE), PopItem("XXX", 3, FALSE)>>,
      <<PopItem("", 4, TRUE)>> }

\* .filter(country => country.population && country.cca3)
popKept(country) == country.population # 0 /\ country.cca3 # ""

\* .map(country => ({ country: country.name.common, ... })) raises a
\* TypeError on a kept item without a name object.
popMapThrows(data) == \E i \in 1..Len(data) : popKept(data[i]) /\ ~data[i].named

\* A ranking built without the sort.
popRankingsUnsorted(data) ==
    LET kept == filter(data, popKept)
        mapped == [i \in 1..Len(kept) |->
                      [code |-> kept[i].cca3, value |-> kept[i].population]]
    IN  slice(mapped, TopN)

popRankings(data) ==
    LET kept == filter(data, popKept)
        mapped == [i \in 1..Len(kept) |->
                      [code |-> kept[i].cca3, value |-> kept[i].population]]
    IN  slice(sort(mapped, byValueDesc), TopN)

\* Items of the World Bank payload's data array: country.id, value (0 for
\* null) and date.
WbItem(id, value, date) == [id |-> id, value |-> value, date |-> date]

\* item.country.id.length
idLength(id) == IF id \in {"1W", "EU"} THEN 2 ELSE 3

GdpBodies ==
    { <<WbItem("DEU", 4, 2023), WbItem("USA", 20, 2022), WbItem("USA", 25, 2023),
        WbItem("1W", 99, 2023), WbItem("CHN", 0, 2023), WbItem("CHN", 17, 2022)>>,
      <<WbItem("JPN", 4, 2023), WbItem("JPN", 5, 2022)>> }

\* The most recent item with a value of each three-letter country, in the
\* order the countries are first met (a Map keeps insertion order).
RECURSIVE latestByCountry(_, _)
latestByCountry(data, acc) ==
    IF data = <<>> THEN acc
    ELSE LET item == Head(data)
             at == {i \in 1..Len(acc) : acc[i].id = item.id}
         IN  IF item.value # 0 /\ idLength(item.id) = 3
             THEN IF at = {} THEN latestByCountry(Tail(data), Append(acc, item))
                  ELSE LET i == CHOOSE j \in at : TRUE
                       IN  IF item.date > acc[i].date
                           THEN latestByCountry(Tail(data), [acc EXCEPT ![i] = item])
                           ELSE latestByCountry(Tail(data), acc)
             ELSE latestByCountry(Tail(data), acc)

gdpRankings(data) ==
    LET latest == latestByCountry(data, <<>>)
        mapped == [i \in 1..Len(latest) |->
                      [code |-> latest[i].id, value |-> latest[i].value]]
    IN  slice(sort(mapped, byValueDesc), TopN)

Rank(code, value) == [code |-> code, value |-> value]

\* The list returned from the catch block of fetchTopPopulatedCountries.
fallbackPopulation ==
    << Rank("IND", 1441719852), Rank("CHN", 1425178782), Rank("USA", 341814420),
       Rank("IDN", 279798049), Rank("PAK", 240485658), Rank("NGA", 232679478),
       Rank("BRA", 217637297), Rank("BGD", 174701211), Rank("RUS", 144820423),
       Rank("MEX", 130861007) >>

\* The list returned from the catch block of fetchTopGDPCountries, in
\* billions of USD.
fallbackGDP ==
    << Rank("USA", 28781), Rank("CHN", 18532), Rank("DEU", 4591), Rank("JPN", 4110),
       Rank("IND", 4051), Rank("GBR", 3495), Rank("FRA", 3130), Rank("ITA", 2255),
       Rank("BRA", 2173), Rank("CAN", 2117) >>

\* The curated language list (speakers in millions), sorted as the code
\* sorts it.
\* (a, b) => b.speakers - a.speakers
bySpeakersDesc(a) == 0 - a.value

topLanguages ==
    sort(<< Rank("English", 1500), Rank("Mandarin Chinese", 1118), Rank("Hindi", 602),
            Rank("Spanish", 559), Rank("Arabic", 422), Rank("French", 280),
            Rank("Bengali", 268), Rank("Portuguese", 258), Rank("Russian", 258),
            Rank("Japanese", 125) >>, bySpeakersDesc)

\* The religion list (adherents in millions), in the order written.
religionDistribution ==
    << Rank("Christianity", 2400), Rank("Islam", 1800), Rank("Hinduism", 1200),
       Rank("Buddhism", 500), Rank("Folk Religions", 400), Rank("Judaism", 14),
       Rank("Other Religions", 58), Rank("Unaffiliated", 1200) >>

\* The argument of fetchPopulationGrowthData (two of the five codes).
growthCountries == <<"USA", "CHN">>

\* Per-country World Bank series: date and value (0 for null).
GrowthBodies ==
    { <<WbItem("X", 3, 2012), WbItem("X", 0, 2011), WbItem("X", 1, 2010)>> }

\* (a, b) => a.year - b.year
byYearAsc(a) == a.year

\* A series that keeps the null observations as zero-valued points.
populationDataZeroFilled(data) ==
    LET mapped == [i \in 1..Len(data) |->
                      [year |-> data[i].date, population |-> data[i].value]]
    IN  sort(mapped, byYearAsc)

\* .filter(item => item.value !== null).map(...).sort((a, b) => a.year - b.year)
populationData(data) ==
    LET kept == LET P(item) == item.value # 0 IN filter(data, P)
        mapped == [i \in 1..Len(kept) |->
                      [year |-> kept[i].date, population |-> kept[i].value]]
    IN  sort(mapped, byYearAsc)

(***************************************************************************)
(* The analytics service: cache and fetches                                *)
(***************************************************************************)
NetworkCats == {"top_populated", "top_gdp", "population_growth"}
StaticCats == {"top_languages", "religion_distribution"}

\* `analytics_${key}`, a key being a sequence of its parts.
getCacheKey(key) == <<"analytics">> \o key

\* The cache key each fetch function computes.
cacheKeyOf(cat) ==
    IF cat = "population_growth"
    THEN getCacheKey(<<"population_growth">> \o growthCountries)
    ELSE getCacheKey(<<cat>>)

\* A validity test with the comparison turned round.
isValidCacheInverted(timestamp) == now - timestamp > CACHE_DURATION

\* A validity test that counts an entry exactly CACHE_DURATION old as fresh.
isValidCacheInclusive(timestamp) == now - timestamp <= CACHE_DURATION

\* Date.now() - timestamp < this.CACHE_DURATION
isValidCache(timestamp) == now - timestamp < CACHE_DURATION

\* const cached = this.cache.get(cacheKey); cached && this.isValidCache(...)
cacheHit(c, key) == key \in DOMAIN c /\ isValidCache(c[key].timestamp)

\* A cache write that leaves a live entry of the key alone.
cacheSetFirstWins(c, key, data) ==
    IF cacheHit(c, key) THEN c
    ELSE [k \in DOMAIN c \cup {key} |->
             IF k = key THEN [data |-> data, timestamp |-> now] ELSE c[k]]

\* A cache write that also evicts the entries that have expired.
cacheSetEvicting(c, key, data) ==
    [k \in {x \in DOMAIN c : isValidCache(c[x].timestamp)} \cup {key} |->
        IF k = key THEN [data |-> data, timestamp |-> now] ELSE c[k]]

\* this.cache.set(cacheKey, { data, timestamp: Date.now() })
cacheSet(c, key, data) ==
    [k \in DOMAIN c \cup {key} |->
        IF k = key THEN [data |-> data, timestamp |-> now] ELSE c[k]]

\* Responses of the REST Countries and World Bank endpoints.  noData is a
\* World Bank answer whose second element is not an array.
PopResponses ==
    [kind : FailureKinds, body : {<<>>}] \cup [kind : {"array"}, body : PopBodies]

GdpResponses ==
    [kind : FailureKinds \cup {"noData"}, body : {<<>>}]
        \cup [kind : {"array"}, body : GdpBodies]

GrowthResponses ==
    [kind : {"reject", "status", "noData"}, body : {<<>>}]
        \cup [kind : {"array"}, body : GrowthBodies]

\* The try block of fetchTopPopulatedCountries after the fetch: whether it
\* throws, and the rankings it computes otherwise.
populationThrows(net) ==
    ~ok(net) \/ jsonRejects(net) \/ ~isArray(net) \/ popMapThrows(net.body)

\* The try block of fetchTopGDPCountries: destructuring a JSON value that is
\* not iterable throws as well.
gdpThrows(net) == ~ok(net) \/ jsonRejects(net) \/ ~isArray(net)

\* One request of fetchPopulationGrowthData: it throws on a failed request
\* and yields null (here <<>>) on a payload without a data array.
growthRequestThrows(net) == ~ok(net) \/ jsonRejects(net) \/ net.kind = "object"

growthSeries(code, net) ==
    IF ~isArray(net) THEN <<>>
    ELSE <<[country |-> code, data |-> populationData(net.body)]>>

\* results.filter(Boolean) over the requests, in the order of the codes.
RECURSIVE validResults(_, _)
validResults(codes, nets) ==
    IF codes = <<>> THEN <<>>
    ELSE growthSeries(Head(codes), nets[Head(codes)]) \o validResults(Tail(codes), nets)

\* What a fetch function settles with once its network call has come to
\* net: stored tells whether the result was written to the cache.
Settled(status, stored, data) == [status |-> status, stored |-> stored, data |-> data]

\* A population fetch whose catch block rethrows instead of returning the
\* fallback list.
settlePopulationRethrows(net) ==
    IF populationThrows(net) THEN Settled("rejected", FALSE, <<>>)
    ELSE Settled("resolved", TRUE, popRankings(net.body))

settlePopulation(net) ==
    IF populationThrows(net) THEN Settled("resolved", FALSE, fallbackPopulation)
    ELSE Settled("resolved", TRUE, popRankings(net.body))

\* A GDP fetch that caches the bundled list it falls back to.
settleGdpStoresFallback(net) ==
    IF gdpThrows(net) THEN Settled("resolved", TRUE, fallbackGDP)
    ELSE Settled("resolved", TRUE, gdpRankings(net.body))

settleGdp(net) ==
    IF gdpThrows(net) THEN Settled("resolved", FALSE, fallbackGDP)
    ELSE Settled("resolved", TRUE, gdpRankings(net.body))

\* A growth fetch that waits for every request and keeps the series of
\* those that succeeded.
settleGrowthAllSettled(nets) ==
    LET good == [c \in KeySet(growthCountries) |->
                    IF growthRequestThrows(nets[c])
                    THEN [kind |-> "noData", body |-> <<>>] ELSE nets[c]]
    IN  Settled("resolved", TRUE, validResults(growthCountries, good))

settleGrowth(nets) ==
    IF \E i \in 1..Len(growthCountries) : growthRequestThrows(nets[growthCountries[i]])
    THEN Settled("resolved", FALSE, <<>>)
    ELSE Settled("resolved", TRUE, validResults(growthCountries, nets))

\* The list a static category builds on a miss.
staticData(cat) ==
    IF cat = "top_languages" THEN topLanguages ELSE religionDistribution

\* A settled fetch, as the log keeps it.  after: how many fetches had
\* settled when it was called; start, end: the clock at its call and at its
\* settling; hit: answered from the cache; called: the provider was invoked.
LogEntry(m, cat, after, start, hit, called, res) ==
    [mount |-> m, cat |-> cat, after |-> after, start |-> start, end |-> now,
     hit |-> hit, called |-> called, status |-> res.status, stored |-> res.stored,
     data |-> res.data]

\* The synchronous part of a fetch function called by mount m: a valid cache
\* entry is returned, a static category is built, stored and returned, and a
\* network category suspends at its fetch.  st is <<cache, pending, log>>.
startFetch(st, m, cat) ==
    LET key == cacheKeyOf(cat)
    IN  IF cacheHit(st[1], key)
        THEN <<st[1], st[2],
               Append(st[3], LogEntry(m, cat, Len(st[3]), now, TRUE, FALSE,
                                      Settled("resolved", FALSE, st[1][key].data)))>>
        ELSE IF cat \in StaticCats
        THEN <<cacheSet(st[1], key, staticData(cat)), st[2],
               Append(st[3], LogEntry(m, cat, Len(st[3]), now, FALSE, TRUE,
                                      Settled("resolved", TRUE, staticData(cat))))>>
        ELSE <<st[1],
               st[2] \cup {[mount |-> m, cat |-> cat, after |-> Len(st[3]), start |-> now]},
               st[3]>>

\* The categories each component requests together, in call order.
jointCats(comp) ==
    IF comp = "RankingsList"
    THEN <<"top_populated", "top_gdp", "top_languages">>
    ELSE <<"population_growth", "religion_distribution", "top_languages">>

\* What the component stores of a category's result.
stateOf(comp, cat, data) ==
    IF comp = "DataVisualizations" /\ cat = "top_languages" THEN slice(data, 8)
    ELSE data

\* The Promise.all of mount m over the log l: rejected as soon as one fetch
\* rejects (the catch block only logs), fulfilled once all have resolved
\* (the setters run), awaiting otherwise.
jointOf(comp, m, l) ==
    LET mine == {i \in 1..Len(l) : l[i].mount = m}
        cats == jointCats(comp)
        entry(cat) == l[CHOOSE i \in mine : l[i].cat = cat]
    IN  IF \E i \in mine : l[i].status = "rejected"
        THEN [comp |-> comp, state |-> "rejected", results |-> <<>>]
        ELSE IF \A k \in 1..Len(cats) : \E i \in mine : l[i].cat = cats[k]
        THEN [comp |-> comp, state |-> "fulfilled",
              results |-> [k \in 1..Len(cats) |-> stateOf(comp, cats[k], entry(cats[k]).data)]]
        ELSE [comp |-> comp, state |-> "awaiting", results |-> <<>>]

\* useEffect of RankingsList or DataVisualizations: the three fetch functions
\* are called in order and awaited jointly.
Mount(comp) ==
    /\ Len(joint) < MaxMounts
    /\ LET m == Len(joint) + 1
           cats == jointCats(comp)
           st == startFetch(startFetch(startFetch(<<cache, pending, log>>,
                                m, cats[1]), m, cats[2]), m, cats[3])
       IN  /\ cache' = st[1]
           /\ pending' = st[2]
           /\ log' = st[3]
           /\ joint' = Append(joint, jointOf(comp, m, st[3]))
    /\ response' = <<>>
    /\ UNCHANGED <<now, resolveVars, selectVars, parseVars, geoVars>>

\* A service that shares one provider call among the fetches of a category
\* that are out together: the answer to p settles them all.
resumeShared(p, net, res) ==
    LET others == {q \in pending : q.cat = p.cat /\ q # p}
        first == Append(log, LogEntry(p.mount, p.cat, p.after, p.start, FALSE, TRUE, res))
        all == IF others = {} THEN first
               ELSE LET q == CHOOSE q \in others : TRUE
                    IN  Append(first, LogEntry(q.mount, q.cat, q.after, q.start, FALSE, FALSE,
                                               Settled(res.status, FALSE, res.data)))
    IN  /\ pending' = (pending \ {p}) \ others
        /\ cache' = IF res.stored THEN cacheSet(cache, cacheKeyOf(p.cat), res.data) ELSE cache
        /\ log' = all
        /\ response' = net
        /\ joint' = [m \in DOMAIN joint |-> jointOf(joint[m].comp, m, all)]
        /\ UNCHANGED <<now, resolveVars, selectVars, parseVars, geoVars>>

\* A suspended fetch p resumes with res; a stored result overwrites the
\* cache entry of its key.
resume(p, net, res) ==
    /\ pending' = pending \ {p}
    /\ cache' = IF res.stored THEN cacheSet(cache, cacheKeyOf(p.cat), res.data) ELSE cache
    /\ log' = Append(log, LogEntry(p.mount, p.cat, p.after, p.start, FALSE, TRUE, res))
    /\ response' = net
    /\ joint' = [joint EXCEPT ![p.mount] = jointOf(joint[p.mount].comp, p.mount, log')]
    /\ UNCHANGED <<now, resolveVars, selectVars, parseVars, geoVars>>

PopulationResponse(p, net) ==
    /\ p \in pending /\ p.cat = "top_populated"
    /\ resume(p, <<net>>, settlePopulation(net))

GdpResponse(p, net) ==
    /\ p \in pending /\ p.cat = "top_gdp"
    /\ resume(p, <<net>>, settleGdp(net))

\* The growth requests have all answered, or one of them has failed.
GrowthResponse(p, nets) ==
    /\ p \in pending /\ p.cat = "population_growth"
    /\ resume(p, [i \in 1..Len(growthCountries) |-> nets[growthCountries[i]]],
              settleGrowth(nets))

Tick ==
    /\ now < MaxTime
    /\ now' = now + TickStep
    /\ UNCHANGED <<cache, pending, log, response, joint, resolveVars, selectVars, parseVars, geoVars>>

InitAnalytics ==
    /\ now = 0
    /\ cache = <<>>
    /\ pending = {}
    /\ log = <<>>
    /\ response = <<>>
    /\ joint = <<>>

NextAnalytics ==
    \/ \E comp \in {"RankingsList", "DataVisualizations"} : Mount(comp)
    \/ \E p \in pending : \E net \in PopResponses : PopulationResponse(p, net)
    \/ \E p \in pending : \E net \in GdpResponses : GdpResponse(p, net)
    \/ \E p \in pending :
          \E nets \in [KeySet(growthCountries) -> GrowthResponses] : GrowthResponse(p, nets)
    \/ Tick

(***************************************************************************)
(* The enrichment service and the selection flow                           *)
(***************************************************************************)
\* handleCountrySelect calls in one behaviour.
MaxSelections == 3

\* The countries a user selects: cca3 and name.common.
SelectCountries ==
    { [cca3 |-> "USA", common |-> "United States"],
      [cca3 |-> "FRA", common |-> "France"],
      [cca3 |-> "NER", common |-> "Niger"] }

\* mappings[countryCode] || mappings[countryName] || null ("" for null); the
\* table is keyed by two-letter codes, 'USA' and common names.
mappings ==
    [k \in {"USA", "United States", "France"} |->
        IF k = "France" THEN "europe/fr.json" ELSE "north-america/us.json"]

\* A lookup that sends every unlisted country to a default document.
getFactbookPathDefault(countryCode, countryName) ==
    IF countryCode \in DOMAIN mappings THEN mappings[countryCode]
    ELSE IF countryName \in DOMAIN mappings THEN mappings[countryName]
    ELSE "world/xx.json"

getFactbookPath(countryCode, countryName) ==
    IF countryCode \in DOMAIN mappings THEN mappings[countryCode]
    ELSE IF countryName \in DOMAIN mappings THEN mappings[countryName]
    ELSE ""

\* A factbook document, as the set of the texts it carries; the fields of
\* the result are named after the texts they are parsed from.
FactbookDocs == {{}, {"religion"}, {"religion", "president", "independence"}}

\* Responses of the factbook host: "object" is a parsed document.
FactbookResponses ==
    [kind : {"reject", "status", "unparseable"}, doc : {{}}]
        \cup [kind : {"object"}, doc : FactbookDocs]

\* `${countryCode}-${countryName}`
factbookKey(c) == <<c.cca3, c.common>>

\* A fetchAdditionalData without its try/catch: a rejected fetch or json()
\* rejects the call.
settleAdditionalUncaught(net) ==
    IF net.kind \in {"reject", "unparseable"} THEN Settled("rejected", FALSE, {})
    ELSE Settled("resolved", TRUE, IF ok(net) THEN net.doc ELSE {})

\* A fetchAdditionalData that caches what it extracted only and forgets a
\* failed request.
settleAdditionalForgetsFailure(net) ==
    IF net.kind = "reject" THEN Settled("resolved", FALSE, {})
    ELSE IF ~ok(net) THEN Settled("resolved", FALSE, {})
    ELSE IF jsonRejects(net) THEN Settled("resolved", FALSE, {})
    ELSE Settled("resolved", TRUE, net.doc)

\* fetchAdditionalData after its fetch: a non-OK status skips the
\* extraction, a rejected fetch or json() is caught; the result, empty or
\* not, is cached and returned.
settleAdditional(net) ==
    IF net.kind = "reject" THEN Settled("resolved", TRUE, {})
    ELSE IF ~ok(net) THEN Settled("resolved", TRUE, {})
    ELSE IF jsonRejects(net) THEN Settled("resolved", TRUE, {})
    ELSE Settled("resolved", TRUE, net.doc)

\* A handleCountrySelect that sets the bare country whatever it was given.
selectedAfterBare(country, res) == <<[country |-> country, extra |-> {}]>>

\* The rest of handleCountrySelect once its await has settled:
\* setSelectedCountry({...country, ...additionalData}), or the bare country
\* from the catch block.
selectedAfter(country, res) ==
    IF res.status = "resolved"
    THEN <<[country |-> country, extra |-> res.data]>>
    ELSE <<[country |-> country, extra |-> {}]>>

\* handleCountrySelect(country), up to its first suspension.  A cached key
\* and a country without a factbook path settle at once.
HandleCountrySelect(country) ==
    /\ Len(selectCalls) < MaxSelections
    /\ selectCalls' = Append(selectCalls, country)
    /\ LET key == factbookKey(country)
           i == Len(selectCalls) + 1
       IN  IF key \in DOMAIN factbookCache
           THEN /\ selectedCountry' =
                       selectedAfter(country, Settled("resolved", FALSE, factbookCache[key]))
                /\ settled' = Append(settled, [call |-> i, hit |-> TRUE, status |-> "resolved",
                                               net |-> "none", at |-> now,
                                               data |-> factbookCache[key]])
                /\ UNCHANGED <<factbookCache, selections>>
           ELSE IF getFactbookPath(country.cca3, country.common) = ""
           THEN /\ factbookCache' = [k \in DOMAIN factbookCache \cup {key} |->
                                        IF k = key THEN {} ELSE factbookCache[k]]
                /\ selectedCountry' = selectedAfter(country, Settled("resolved", TRUE, {}))
                /\ settled' = Append(settled, [call |-> i, hit |-> FALSE, status |-> "resolved",
                                               net |-> "none", at |-> now, data |-> {}])
                /\ UNCHANGED selections
           ELSE /\ selections' = selections \cup {i}
                /\ UNCHANGED <<factbookCache, selectedCountry, settled>>
    /\ UNCHANGED <<resolveVars, analyticsVars, parseVars, geoVars>>

\* The factbook host has answered call i: fetchAdditionalData caches and
\* returns its result and handleCountrySelect sets the selection.
FactbookResponse(i, net) ==
    /\ i \in selections
    /\ LET country == selectCalls[i]
           res == settleAdditional(net)
       IN  /\ factbookCache' =
                  IF res.stored
                  THEN [k \in DOMAIN factbookCache \cup {factbookKey(country)} |->
                           IF k = factbookKey(country) THEN res.data ELSE factbookCache[k]]
                  ELSE factbookCache
           /\ settled' = Append(settled, [call |-> i, hit |-> FALSE, status |-> res.status,
                                          net |-> net.kind, at |-> now,
                                          data |-> res.data])
           /\ selectedCountry' = selectedAfter(country, res)
    /\ selections' = selections \ {i}
    /\ UNCHANGED <<selectCalls, resolveVars, analyticsVars, parseVars, geoVars>>

InitSelect ==
    /\ factbookCache = <<>>
    /\ selectCalls = <<>>
    /\ selections = {}
    /\ selectedCountry = <<>>
    /\ settled = <<>>

NextSelect ==
    \/ \E country \in SelectCountries : HandleCountrySelect(country)
    \/ \E i \in selections : \E net \in FactbookResponses : FactbookResponse(i, net)
    \/ Tick

(***************************************************************************)
(* The parse functions of the enrichment service                           *)
(***************************************************************************)
\* Tokens put together in one text.
MaxTokens == 5

isDigit(c) == c \in {"0", "1", "2", "3", "4", "5", "6", "7", "8", "9"}

\* [A-Za-z]
isLetter(c) == c \in DOMAIN upperOf \/ c \in DOMAIN lowerOf

\* \s, the space being the only white space of the texts
isSpace(c) == c = " "

\* \w, for the word boundaries \b
isWordChar(c) == isLetter(c) \/ isDigit(c) \/ c = "_"

\* The end of the greedy runs \s*, \d* and [A-Za-z]* started at i: the first
\* index from i on that is not of the class, Len(s) + 1 when there is none.
spacesEnd(s, i) ==
    CHOOSE j \in i..(Len(s) + 1) :
        /\ \A k \in i..(j - 1) : isSpace(s[k])
        /\ (j = Len(s) + 1 \/ ~isSpace(s[j]))

digitsEnd(s, i) ==
    CHOOSE j \in i..(Len(s) + 1) :
        /\ \A k \in i..(j - 1) : isDigit(s[k])
        /\ (j = Len(s) + 1 \/ ~isDigit(s[j]))

lettersEnd(s, i) ==
    CHOOSE j \in i..(Len(s) + 1) :
        /\ \A k \in i..(j - 1) : isLetter(s[k])
        /\ (j = Len(s) + 1 \/ ~isLetter(s[j]))

\* String.prototype.trim
trim(s) ==
    LET kept == {i \in 1..Len(s) : ~isSpace(s[i])}
    IN  IF kept = {} THEN <<>>
        ELSE SubSeq(s, CHOOSE a \in kept : \A k \in kept : a <= k,
                       CHOOSE b \in kept : \A k \in kept : k <= b)

\* s.split(c)[0]: s up to the first c, all of s when it has none.
splitFirst(s, c) ==
    LET at == {i \in 1..Len(s) : s[i] = c}
    IN  IF at = {} THEN s
        ELSE SubSeq(s, 1, (CHOOSE a \in at : \A k \in at : a <= k) - 1)

\* s.replace(re, '') for a pattern ending in .*$ : s is cut at the leftmost
\* index of the set at where the pattern matches.
cutAtFirst(s, at) ==
    IF at = {} THEN s
    ELSE SubSeq(s, 1, (CHOOSE a \in at : \A k \in at : a <= k) - 1)

\* /\s+\d+(\.\d+)?%.*$/ matches at index i of s.
percentMatchAt(s, i) ==
    /\ isSpace(s[i])
    /\ LET j == spacesEnd(s, i)
           k == digitsEnd(s, j)
       IN  /\ k > j
           /\ k <= Len(s)
           /\ \/ s[k] = "%"
              \/ /\ s[k] = "."
                 /\ LET l == digitsEnd(s, k + 1)
                    IN  l > k + 1 /\ l <= Len(s) /\ s[l] = "%"

\* A pattern without the optional decimal part.
parseReligionIntegerOnly(religionText) ==
    LET religions == trim(splitFirst(religionText, ","))
        at == {i \in 1..Len(religions) :
                  /\ isSpace(religions[i])
                  /\ LET j == spacesEnd(religions, i)
                         k == digitsEnd(religions, j)
                     IN  k > j /\ k <= Len(religions) /\ religions[k] = "%"}
    IN  trim(cutAtFirst(religions, at))

parseReligion(religionText) ==
    LET religions == trim(splitFirst(religionText, ","))
        at == {i \in 1..Len(religions) : percentMatchAt(religions, i)}
    IN  trim(cutAtFirst(religions, at))

Titles ==
    { <<"P", "r", "e", "s", "i", "d", "e", "n", "t">>,
      <<"P", "r", "i", "m", "e", " ", "M", "i", "n", "i", "s", "t", "e", "r">>,
      <<"C", "h", "i", "e", "f", " ", "o", "f", " ", "S", "t", "a", "t", "e">>,
      <<"H", "e", "a", "d", " ", "o", "f", " ", "G", "o", "v", "e", "r", "n", "m",
        "e", "n", "t">> }

\* The length of the title /^(President|...)\s+/i matches, 0 for no match.
titleLength(s) ==
    LET fits == {T \in Titles :
                    /\ Len(s) > Len(T)
                    /\ toLowerCase(SubSeq(s, 1, Len(T))) = toLowerCase(T)
                    /\ isSpace(s[Len(T) + 1])}
    IN  IF fits = {} THEN 0 ELSE Len(CHOOSE T \in fits : TRUE)

stripTitle(s) ==
    IF titleLength(s) = 0 THEN s
    ELSE SubSeq(s, spacesEnd(s, titleLength(s) + 1), Len(s))

Since == <<"(", "s", "i", "n", "c", "e">>

\* /\s+\(since.*?\).*$/ matches at index i of s.
sinceMatchAt(s, i) ==
    /\ isSpace(s[i])
    /\ LET j == spacesEnd(s, i)
       IN  /\ j + Len(Since) - 1 <= Len(s)
           /\ SubSeq(s, j, j + Len(Since) - 1) = Since
           /\ \E k \in (j + Len(Since))..Len(s) : s[k] = ")"

stripSince(s) == cutAtFirst(s, {i \in 1..Len(s) : sinceMatchAt(s, i)})

Vacant == <<"v", "a", "c", "a", "n", "t">>
Acting == <<"a", "c", "t", "i", "n", "g">>
PositionVacantActing ==
    <<"P", "o", "s", "i", "t", "i", "o", "n", " ", "V", "a", "c", "a", "n", "t",
        "/", "A", "c", "t", "i", "n", "g">>
NotAvailable == <<"N", "o", "t", " ", "A", "v", "a", "i", "l", "a", "b", "l", "e">>

\* A parsePresident whose title pattern has lost its i flag.
parsePresidentCaseSensitive(presidentText) ==
    LET fits == {T \in Titles :
                    /\ Len(presidentText) > Len(T)
                    /\ SubSeq(presidentText, 1, Len(T)) = T
                    /\ isSpace(presidentText[Len(T) + 1])}
        stripped == IF fits = {} THEN presidentText
                    ELSE SubSeq(presidentText,
                                spacesEnd(presidentText, Len(CHOOSE T \in fits : TRUE) + 1),
                                Len(presidentText))
        president == trim(stripSince(stripped))
    IN  IF \/ includes(toLowerCase(president), Vacant)
           \/ includes(toLowerCase(president), Acting)
        THEN PositionVacantActing
        ELSE IF president = <<>> THEN NotAvailable ELSE president

parsePresident(presidentText) ==
    LET president == trim(stripSince(stripTitle(presidentText)))
    IN  IF \/ includes(toLowerCase(president), Vacant)
           \/ includes(toLowerCase(president), Acting)
        THEN PositionVacantActing
        ELSE IF president = <<>> THEN NotAvailable ELSE president

\* /(\d+\s+[A-Za-z]+\s+\d{4})/ matches at index i of s: the index of the
\* last character matched, 0 for no match.
dateMatchEnd(s, i) ==
    IF ~isDigit(s[i]) THEN 0
    ELSE LET a == digitsEnd(s, i)
             b == spacesEnd(s, a)
             c == lettersEnd(s, b)
             d == spacesEnd(s, c)
         IN  IF /\ b > a /\ c > b /\ d > c
                /\ d + 3 <= Len(s)
                /\ \A k \in d..(d + 3) : isDigit(s[k])
             THEN d + 3 ELSE 0

\* /\b(\d{4})\b/ matches at index i of s.
yearMatchAt(s, i) ==
    /\ i + 3 <= Len(s)
    /\ \A k \in i..(i + 3) : isDigit(s[k])
    /\ (i = 1 \/ ~isWordChar(s[i - 1]))
    /\ (i + 3 = Len(s) \/ ~isWordChar(s[i + 4]))

\* A parseIndependence that looks for the year first.
parseIndependenceYearFirst(independenceText) ==
    LET dates == {i \in 1..Len(independenceText) : dateMatchEnd(independenceText, i) # 0}
        years == {i \in 1..Len(independenceText) : yearMatchAt(independenceText, i)}
        rest == trim(splitFirst(independenceText, "("))
    IN  IF years # {}
        THEN LET i == CHOOSE a \in years : \A k \in years : a <= k
             IN  SubSeq(independenceText, i, i + 3)
        ELSE IF dates # {}
        THEN LET i == CHOOSE a \in dates : \A k \in dates : a <= k
             IN  SubSeq(independenceText, i, dateMatchEnd(independenceText, i))
        ELSE IF rest = <<>> THEN NotAvailable ELSE rest

parseIndependence(independenceText) ==
    LET dates == {i \in 1..Len(independenceText) : dateMatchEnd(independenceText, i) # 0}
        years == {i \in 1..Len(independenceText) : yearMatchAt(independenceText, i)}
        rest == trim(splitFirst(independenceText, "("))
    IN  IF dates # {}
        THEN LET i == CHOOSE a \in dates : \A k \in dates : a <= k
             IN  SubSeq(independenceText, i, dateMatchEnd(independenceText, i))
        ELSE IF years # {}
        THEN LET i == CHOOSE a \in years : \A k \in years : a <= k
             IN  SubSeq(independenceText, i, i + 3)
        ELSE IF rest = <<>> THEN NotAvailable ELSE rest

\* The texts the parse functions are applied to: the documented examples and
\* every text put together from at most MaxTokens tokens.
RECURSIVE Concats(_, _)
Concats(tokens, n) ==
    IF n = 0 THEN {<<>>}
    ELSE LET shorter == Concats(tokens, n - 1)
         IN  shorter \cup {p \o t : p \in shorter, t \in tokens}

ReligionTokens ==
    { <<"S", "i", "k", "h">>,
      <<" ">>,
      <<"6">>,
      <<".", "5">>,
      <<"%">>,
      <<",">> }

PresidentTokens ==
    { <<"P", "r", "e", "s", "i", "d", "e", "n", "t">>,
      <<"P", "R", "I", "M", "E", " ", "M", "I", "N", "I", "S", "T", "E", "R">>,
      <<" ">>,
      <<"D", "o", "e">>,
      <<"(", "s", "i", "n", "c", "e", " ", "2", "0", "2", "0", ")">>,
      <<"(", "s", "i", "n", "c", "e">>,
      <<"V", "a", "c", "a", "n", "t">> }

IndependenceTokens ==
    { <<"4">>,
      <<" ">>,
      <<"J", "u", "l", "y">>,
      <<"1", "7", "7", "6">>,
      <<"(">>,
      <<"-">> }

ExampleReligion ==
    <<"C", "h", "r", "i", "s", "t", "i", "a", "n", "i", "t", "y", " ", "6", "5",
        "%", ",", " ", "I", "s", "l", "a", "m", " ", "5", "%", ",", " ", "o",
        "t", "h", "e", "r", " ", "3", "0", "%">>

ExamplePresident ==
    <<"P", "r", "e", "s", "i", "d", "e", "n", "t", " ", "J", "o", "h", "n", " ",
        "D", "o", "e", " ", "(", "s", "i", "n", "c", "e", " ", "2", "0", "2",
        "0", ")">>

ExampleActing ==
    <<"A", "c", "t", "i", "n", "g", " ", "P", "r", "e", "s", "i", "d", "e", "n",
        "t", " ", "D", "o", "e">>

ExampleIndependence ==
    <<"4", " ", "J", "u", "l", "y", " ", "1", "7", "7", "6", " ", "(", "f", "r",
        "o", "m", " ", "G", "r", "e", "a", "t", " ", "B", "r", "i", "t", "a",
        "i", "n", ")">>

\* The extraction code guards each call with a test that the text is not
\* empty.
Texts ==
    (Concats(ReligionTokens, MaxTokens) \cup Concats(PresidentTokens, MaxTokens)
        \cup Concats(IndependenceTokens, MaxTokens)
        \cup {ExampleReligion, ExamplePresident, ExampleActing, ExampleIndependence})
    \ {<<>>}

\* result.religion = this.parseReligion(text)
ParseReligion ==
    /\ parsed = <<>>
    /\ parsed' = <<[fn |-> "parseReligion", out |-> parseReligion(text)]>>
    /\ UNCHANGED <<text, resolveVars, analyticsVars, selectVars, geoVars>>

\* result.president = this.parsePresident(text)
ParsePresident ==
    /\ parsed = <<>>
    /\ parsed' = <<[fn |-> "parsePresident", out |-> parsePresident(text)]>>
    /\ UNCHANGED <<text, resolveVars, analyticsVars, selectVars, geoVars>>

\* result.independence = this.parseIndependence(text)
ParseIndependence ==
    /\ parsed = <<>>
    /\ parsed' = <<[fn |-> "parseIndependence", out |-> parseIndependence(text)]>>
    /\ UNCHANGED <<text, resolveVars, analyticsVars, selectVars, geoVars>>

NextParse ==
    \/ ParseReligion
    \/ ParsePresident
    \/ ParseIndependence

(***************************************************************************)
(* The feature layer of the Leaflet map                                    *)
(***************************************************************************)
\* Runs of the layer effect in one behaviour.
MaxEffects == 3

\* Responses of the host of the boundary dataset.
GeoResponses == [kind : {"reject", "status", "unparseable", "geojson"}]

\* The layer a run of the effect builds: its click handlers close over the
\* country list of that render.
Layer(run, list) == [run |-> run, list |-> list]

\* geoLayerRef.current.remove()
removeLayer(layers, ref) ==
    LET stays(l) == l.run # ref IN SelectSeq(layers, stays)

\* The layer effect, run again because countries or selectedCountry has
\* changed: the layer geoLayerRef points to, if any, is removed and the
\* reference cleared, then fetchGeo is started over the present list.  The
\* effect returns no cleanup and gives fetchGeo nothing to cancel it by.
GeoEffect ==
    /\ Len(geoRuns) < MaxEffects
    /\ geoRuns' = Append(geoRuns, countries)
    /\ mapLayers' = IF geoLayerRef # 0 THEN removeLayer(mapLayers, geoLayerRef)
                    ELSE mapLayers
    /\ geoLayerRef' = 0
    /\ geoPending' = geoPending \cup {Layer(Len(geoRuns) + 1, countries)}
    /\ UNCHANGED <<resolveVars, analyticsVars, selectVars, parseVars>>

\* fetchGeo of run p.run resumes: on a parsed answer the layer is built,
\* added to the map and stored in geoLayerRef; a failure is logged.
GeoResponse(p, net) ==
    /\ p \in geoPending
    /\ geoPending' = geoPending \ {p}
    /\ IF ok(net) /\ ~jsonRejects(net)
       THEN /\ mapLayers' = Append(mapLayers, p)
            /\ geoLayerRef' = p.run
       ELSE UNCHANGED <<mapLayers, geoLayerRef>>
    /\ UNCHANGED <<geoRuns, resolveVars, analyticsVars, selectVars, parseVars>>

\* No layer effect has run.
InitGeoLayer ==
    /\ geoRuns = <<>>
    /\ geoPending = {}
    /\ mapLayers = <<>>
    /\ geoLayerRef = 0

NextGeo ==
    \/ \E net \in CountryResponses : FetchCountriesPrimary(net)
    \/ \E net \in CountryResponses : FetchCountriesFallback(net)
    \/ GeoEffect
    \/ \E p \in geoPending : \E net \in GeoResponses : GeoResponse(p, net)

(***************************************************************************)
(* Specifications                                                          *)
(***************************************************************************)
InitResolve ==
    /\ countries = <<>>
    /\ loadPc = "primary"
    /\ attempts = <<>>
    /\ click = NoClick

Init ==
    /\ InitResolve
    /\ feature = [code |-> <<>>, name |-> <<>>]
    /\ InitAnalytics
    /\ InitSelect
    /\ text = <<>>
    /\ parsed = <<>>
    /\ InitGeoLayer

\* The map: the country load and the clicks, for every feature.
InitMap ==
    /\ InitResolve
    /\ feature \in Features
    /\ InitAnalytics
    /\ InitSelect
    /\ text = <<>>
    /\ parsed = <<>>
    /\ InitGeoLayer

NextResolve ==
    \/ \E net \in CountryResponses : FetchCountriesPrimary(net)
    \/ \E net \in CountryResponses : FetchCountriesFallback(net)
    \/ WorldMapClick
    \/ CountryLayerClick

SpecResolve == InitMap /\ [][NextResolve]_vars

\* No effect of the analytics components has run, no country was selected.
analyticsIdle == joint = <<>>
selectIdle == selectCalls = <<>>

\* The two services share no state: each is followed while the other rests.
NextServices ==
    \/ selectIdle /\ NextAnalytics
    \/ analyticsIdle /\ NextSelect

SpecServices == Init /\ [][NextServices]_vars

SpecAnalytics == Init /\ [][NextAnalytics]_vars

SpecSelect == Init /\ [][NextSelect]_vars

\* The parse functions, applied to every text.
InitParse ==
    /\ InitResolve
    /\ feature = [code |-> <<>>, name |-> <<>>]
    /\ InitAnalytics
    /\ InitSelect
    /\ text \in Texts
    /\ parsed = <<>>
    /\ InitGeoLayer

SpecParse == InitParse /\ [][NextParse]_vars

\* The mounted map: the effects of the first render have run, the load and
\* the first fetchGeo, started over the empty list, are out.
InitGeo ==
    /\ InitResolve
    /\ feature = [code |-> <<>>, name |-> <<>>]
    /\ InitAnalytics
    /\ InitSelect
    /\ text = <<>>
    /\ parsed = <<>>
    /\ geoRuns = <<countries>>
    /\ geoPending = {Layer(1, countries)}
    /\ mapLayers = <<>>
    /\ geoLayerRef = 0

SpecGeo == InitGeo /\ [][NextGeo]_vars

(***************************************************************************)
(* Claims about the load and the clicks                                    *)
(***************************************************************************)
\* Equality of two strings up to the case of their letters.
EqualsIgnoringCase(s, t) ==
    /\ Len(s) = Len(t)
    /\ \A i \in 1..Len(s) : toLowerChar(s[i]) = toLowerChar(t[i])

\* s occurs in t or t occurs in s, up to the case of the letters.
ContainsEitherWay(s, t) ==
    LET occurs(x, y) ==
            \E i \in 1..(Len(y) - Len(x) + 1) :
                \A k \in 1..Len(x) : toLowerChar(x[k]) = toLowerChar(y[i + k - 1])
    IN  occurs(s, t) \/ occurs(t, s)

RecordNames(r) == {r.common, r.official} \ {<<>>}

\* The code the feature carries: its highest-priority code property present.
CarriedCode(f) ==
    IF DOMAIN f.code = {} THEN <<>>
    ELSE f.code[CodeKeys[CHOOSE i \in 1..Len(CodeKeys) :
                    /\ CodeKeys[i] \in DOMAIN f.code
                    /\ \A j \in 1..(i - 1) : CodeKeys[j] \notin DOMAIN f.code]]

\* The feature names a handler can read: all name keys for the Leaflet map,
\* NAME alone for CountryLayer.
NamesRead(f, handler) ==
    IF handler = "CountryLayer"
    THEN {f.name[k] : k \in DOMAIN f.name \cap {"NAME"}}
    ELSE {f.name[k] : k \in DOMAIN f.name}

NoCodeMatches(f, cs) ==
    \A k \in DOMAIN f.code : \A i \in 1..Len(cs) :
        ~EqualsIgnoringCase(f.code[k], cs[i].cca3)

\* C1: for every record r of the loaded list, the Leaflet click handler run
\* on a feature whose code property equals r's cca3 in any letter case
\* passes exactly r to onCountrySelect.
C1_CodeSelectsRecord ==
    click.handler = "WorldMap" =>
        \A i \in 1..Len(click.against) :
            LET r == click.against[i]
            IN  (DOMAIN feature.code # {}
                 /\ EqualsIgnoringCase(CarriedCode(feature), r.cca3))
                    => click.calls = <<r>>

\* C1 witness: a lower-case code, no name on the feature, the record chosen.
C1_Witness ==
    /\ click.handler = "WorldMap"
    /\ DOMAIN feature.name = {}
    /\ \E i \in 1..Len(click.against) :
          /\ EqualsIgnoringCase(CarriedCode(feature), click.against[i].cca3)
          /\ CarriedCode(feature) # click.against[i].cca3
          /\ click.calls = <<click.against[i]>>
          /\ i = 2

\* C2: when no code matches and some record's common or official name
\* equals the feature name exactly (case-folded), the handler selects a
\* record whose name equals it, wherever a record that only contains the
\* name (or is contained in it) stands in the list.
C2_ExactBeatsContainment ==
    (click.handler # "none" /\ NoCodeMatches(feature, click.against)) =>
        \A n \in NamesRead(feature, click.handler) :
            LET exact(r) == \E rn \in RecordNames(r) : EqualsIgnoringCase(rn, n)
                partial(r) == /\ ~exact(r)
                              /\ \E rn \in RecordNames(r) : ContainsEitherWay(rn, n)
                cs == click.against
            IN  (/\ NamesRead(feature, click.handler) = {n}
                 /\ \E i \in 1..Len(cs) : exact(cs[i])
                 /\ \E i \in 1..Len(cs) : partial(cs[i]))
                => Len(click.calls) = 1 /\ exact(click.calls[1])

\* C3: a feature none of whose codes equals a record's code and none of
\* whose names equals, contains or is contained in a record's name ends in
\* notFound: onCountrySelect is not called and nothing is raised.
C3_NotFound ==
    (/\ click.handler # "none"
     /\ NoCodeMatches(feature, click.against)
     /\ \A k \in DOMAIN feature.name : \A i \in 1..Len(click.against) :
           \A rn \in RecordNames(click.against[i]) :
               ~ContainsEitherWay(feature.name[k], rn))
    => click.calls = <<>> /\ ~click.threw

\* C19: a feature without a name whose highest-priority code property
\* equals no record's cca3 but one of whose other code properties equals the
\* cca3 of record r is resolved by the Leaflet click handler to r.
C19_LowerPriorityCodeResolves ==
    (click.handler = "WorldMap" /\ DOMAIN feature.name = {} /\ DOMAIN feature.code # {})
        => \A i \in 1..Len(click.against) :
              LET r == click.against[i]
              IN  (/\ \A j \in 1..Len(click.against) :
                         ~EqualsIgnoringCase(CarriedCode(feature), click.against[j].cca3)
                   /\ \E k \in DOMAIN feature.code :
                         EqualsIgnoringCase(feature.code[k], r.cca3))
                      => click.calls = <<r>>

\* The name the feature carries: its highest-priority name property present.
CarriedName(f) ==
    IF DOMAIN f.name = {} THEN <<>>
    ELSE f.name[NameKeys[CHOOSE i \in 1..Len(NameKeys) :
                    /\ NameKeys[i] \in DOMAIN f.name
                    /\ \A j \in 1..(i - 1) : NameKeys[j] \notin DOMAIN f.name]]

\* The rank of record r as a candidate for feature f: 1 its code equals the
\* carried code, 2 its common name equals the carried name, 3 its official
\* name does, 4 one of its names contains the carried name or is contained
\* in it, 0 no candidate.
CandidateRank(f, r) ==
    LET code == CarriedCode(f)
        name == CarriedName(f)
    IN  IF code # <<>> /\ EqualsIgnoringCase(code, r.cca3) THEN 1
        ELSE IF name = <<>> THEN 0
        ELSE IF r.common # <<>> /\ EqualsIgnoringCase(r.common, name) THEN 2
        ELSE IF r.official # <<>> /\ EqualsIgnoringCase(r.official, name) THEN 3
        ELSE IF \E rn \in RecordNames(r) : ContainsEitherWay(rn, name) THEN 4
        ELSE 0

\* The outcome that feature f and the ordered list cs fix by themselves:
\* the first record whose code matches, else the first name candidate,
\* else nothing.
OutcomeOf(f, cs) ==
    LET byCode == {i \in 1..Len(cs) : CandidateRank(f, cs[i]) = 1}
        byName == {i \in 1..Len(cs) : CandidateRank(f, cs[i]) > 1}
        tier == IF byCode # {} THEN byCode ELSE byName
    IN  IF tier = {} THEN <<>>
        ELSE <<cs[CHOOSE i \in tier : \A j \in tier : i <= j]>>

\* C21: a resolution by the Leaflet click handler is a function of the
\* feature and of the ordered list it ran against alone, whatever was
\* resolved or loaded before, and the record it selects stands before
\* every other candidate of the same rank in the list's order.
C21_Deterministic ==
    click.handler = "WorldMap" =>
        /\ click.calls = OutcomeOf(feature, click.against)
        /\ \A i \in 1..Len(click.against) :
              (click.calls = <<click.against[i]>> /\
               \A k \in 1..(i - 1) : click.against[k] # click.against[i])
                 => \A j \in 1..(i - 1) :
                       CandidateRank(feature, click.against[j])
                           # CandidateRank(feature, click.against[i])

\* C21 witness: two records are candidates of the same rank by name and the
\* first of them is selected.
C21_Witness ==
    /\ click.handler = "WorldMap"
    /\ Len(click.against) = 2
    /\ CandidateRank(feature, click.against[1]) > 1
    /\ CandidateRank(feature, click.against[1])
          = CandidateRank(feature, click.against[2])
    /\ click.against[1] # click.against[2]
    /\ click.calls = <<click.against[1]>>

\* t occurs in s, up to the case of the letters.
ContainsIgnoringCase(s, t) ==
    \E i \in 1..(Len(s) - Len(t) + 1) :
        \A k \in 1..Len(t) : toLowerChar(t[k]) = toLowerChar(s[i + k - 1])

\* C26: when the code the feature carries equals the cca3 of record A and
\* the name it carries equals or contains a name of another record B, the
\* Leaflet click handler selects A; a record selected by its name alone is
\* selected only when no record's code equals the carried code.
C26_CodeTierFirst ==
    click.handler = "WorldMap" =>
        LET cs == click.against
            code == CarriedCode(feature)
            name == CarriedName(feature)
            codeIs(r) == code # <<>> /\ EqualsIgnoringCase(code, r.cca3)
        IN  /\ \A a, b \in 1..Len(cs) :
                  (/\ a # b
                   /\ codeIs(cs[a])
                   /\ name # <<>>
                   /\ \E rn \in RecordNames(cs[b]) : ContainsIgnoringCase(name, rn))
                     => click.calls = <<cs[a]>>
            /\ \A i \in 1..Len(cs) :
                  (click.calls = <<cs[i]>> /\ ~codeIs(cs[i]))
                     => \A j \in 1..Len(cs) : ~codeIs(cs[j])

\* C26 witness: the record matching by name stands first in the list, the
\* record matching by code second, and the second is selected.
C26_Witness ==
    /\ click.handler = "WorldMap"
    /\ Len(click.against) = 2
    /\ EqualsIgnoringCase(CarriedCode(feature), click.against[2].cca3)
    /\ CarriedName(feature) # <<>>
    /\ \E rn \in RecordNames(click.against[1]) :
          ContainsIgnoringCase(CarriedName(feature), rn)
    /\ ~EqualsIgnoringCase(CarriedCode(feature), click.against[1].cca3)
    /\ click.calls = <<click.against[2]>>

\* C30: at most one feature layer is attached to the map at any time, and
\* once the fetchGeo calls have settled, the last run of the effect having
\* been made over the present country list, the layer attached is the one
\* built over that list: no layer of an earlier run stays on the map.
C30_OneLayerLatestList ==
    /\ Len(mapLayers) <= 1
    /\ (geoPending = {} /\ geoRuns[Len(geoRuns)] = countries)
          => \A i \in 1..Len(mapLayers) : mapLayers[i].list = countries

\* C20: the attempts of the bulk load are strictly sequential: while the
\* primary request is out no fallback request exists, the fallback endpoint
\* is requested only after the primary attempt ended in failure (non-OK
\* status, transport error, a payload that is no array), and after a
\* primary success the load is over with one attempt.
C20_AttemptsSequential ==
    /\ Len(attempts) <= 2
    /\ loadPc = "primary" <=> attempts = <<>>
    /\ loadPc = "fallback" => Len(attempts) = 1
    /\ (loadPc = "fallback" \/ Len(attempts) = 2) => attempts[1] \in FailureKinds
    /\ (Len(attempts) >= 1 /\ attempts[1] = "array")
          => loadPc = "done" /\ Len(attempts) = 1

\* The fallback endpoint has served the list after a non-OK primary answer.
C20_Witness ==
    /\ loadPc = "done"
    /\ attempts = <<"status", "array">>
    /\ countries # <<>>

\* Both endpoints of the bulk load have failed.
BothFailed ==
    /\ loadPc = "done"
    /\ Len(attempts) = 2
    /\ attempts[2] # "array"

\* C10: after the bulk load has failed on the primary and on the fallback
\* endpoint the country list is empty and every click misses: nothing is
\* selected and nothing is raised.
C10_FailsClosed ==
    BothFailed => /\ countries = <<>>
                  /\ (click.against = countries => click.calls = <<>> /\ ~click.threw)

\* C10 witness: a click on a feature with a code and a name after both
\* endpoints failed.
C10_Witness ==
    /\ BothFailed
    /\ click.handler = "WorldMap"
    /\ DOMAIN feature.code # {} /\ DOMAIN feature.name # {}
    /\ click.calls = <<>>

(***************************************************************************)
(* Claims about the analytics cache and the fetch functions                *)
(***************************************************************************)
\* Fetch j was called after fetch i of the same category had settled, and no
\* fetch of that category settled between the two.
Sequential(i, j) ==
    /\ i < j
    /\ log[i].cat = log[j].cat
    /\ log[j].after >= i
    /\ \A k \in (i + 1)..(j - 1) : log[k].cat # log[i].cat

\* The second fetch is issued less than CACHE_DURATION after the first
\* settled.
WithinTTL(i, j) == log[j].start - log[i].end < CACHE_DURATION

storedBefore(j) ==
    LET S == {i \in 1..log[j].after : log[i].cat = log[j].cat /\ log[i].stored}
    IN  IF S = {} THEN 0 ELSE CHOOSE i \in S : \A k \in S : k <= i

\* C5: a fetch is answered from the cache exactly when an entry of its key
\* is stored and now - storedAt < CACHE_DURATION; otherwise it is no hit and
\* the provider is invoked again, whether that call then succeeds or fails.
C5_StrictExpiry ==
    \A j \in 1..Len(log) :
        LET i == storedBefore(j)
            fresh == i # 0 /\ log[j].start - log[i].end < CACHE_DURATION
        IN  /\ log[j].hit <=> fresh
            /\ log[j].hit => ~log[j].called /\ log[j].data = log[i].data
            /\ ~log[j].hit => log[j].called

\* An entry exactly CACHE_DURATION old is passed over and the provider,
\* invoked again, fails.
C5_Witness ==
    \E j \in 1..Len(log) :
        LET i == storedBefore(j)
        IN  /\ i # 0
            /\ log[j].start - log[i].end = CACHE_DURATION
            /\ ~log[j].hit /\ log[j].called /\ ~log[j].stored

RankingCats == {"top_populated", "top_gdp"}

\* The provider of a ranking category failed: a transport error, a non-OK
\* status, or a payload of the wrong shape (not JSON, not an array, or an
\* array with an element that lacks its country code or its name).
ProviderFailed(cat, net) ==
    \/ net.kind # "array"
    \/ /\ cat = "top_populated"
       /\ \E i \in 1..Len(net.body) : net.body[i].cca3 = "" \/ ~net.body[i].named

\* Non-empty, at most ten entries, in descending order of value.
IsRanking(d) ==
    /\ d # <<>>
    /\ Len(d) <= 10
    /\ \A a \in 1..Len(d) : \A b \in 1..Len(d) : a < b => d[a].value >= d[b].value

LastFetch == log[Len(log)]

\* C6: when the provider of a ranking category fails, the fetch returns the
\* category's bundled list, which is non-empty, sorted in descending order
\* of value and at most ten entries long.
C6_FallbackOnFailure ==
    response # <<>> /\ LastFetch.cat \in RankingCats
        /\ ProviderFailed(LastFetch.cat, response[1])
        => /\ LastFetch.data =
                  (IF LastFetch.cat = "top_populated" THEN fallbackPopulation
                   ELSE fallbackGDP)
           /\ IsRanking(LastFetch.data)

\* The fetch of category cat made by mount m, once settled.
FetchOf(m, cat) == {i \in 1..Len(log) : log[i].mount = m /\ log[i].cat = cat}

\* C8: the categories requested together are independent: the joint wait
\* never rejects, once the three fetches have settled every category holds
\* what its own fetch returned, and a cache entry holds what a fetch of its
\* own category stored.
C8_CategoriesIndependent ==
    /\ \A m \in 1..Len(joint) :
          LET cats == jointCats(joint[m].comp)
          IN  /\ joint[m].state # "rejected"
              /\ (\A k \in 1..Len(cats) : FetchOf(m, cats[k]) # {})
                    => /\ joint[m].state = "fulfilled"
                       /\ \A k \in 1..Len(cats) : \A i \in FetchOf(m, cats[k]) :
                             joint[m].results[k] =
                                 stateOf(joint[m].comp, cats[k], log[i].data)
    /\ \A cat \in NetworkCats \cup StaticCats :
          cacheKeyOf(cat) \in DOMAIN cache
              => \E i \in 1..Len(log) :
                    /\ log[i].cat = cat /\ log[i].stored
                    /\ cache[cacheKeyOf(cat)] =
                           [data |-> log[i].data, timestamp |-> log[i].end]

\* The population provider failed and the GDP provider answered: the panel
\* shows the bundled population list next to the live GDP ranking.
C8_Witness ==
    \E m \in 1..Len(joint) :
        /\ joint[m].comp = "RankingsList" /\ joint[m].state = "fulfilled"
        /\ \E i \in FetchOf(m, "top_populated") : log[i].called /\ ~log[i].stored
        /\ \E i \in FetchOf(m, "top_gdp") :
              /\ log[i].called /\ log[i].stored
              /\ joint[m].results[2] = log[i].data
              /\ log[i].data # fallbackGDP
        /\ joint[m].results[1] = fallbackPopulation

\* C23: no step removes a key from the analytics cache, and the entry of a
\* key, expired or not, stays as it is until a fetch of its category that
\* called its provider successfully stores its result over it.
C23_EntriesNeverRemoved ==
    [][/\ DOMAIN cache \subseteq DOMAIN cache'
       /\ \A k \in DOMAIN cache :
             cache'[k] # cache[k]
                => \E i \in (Len(log) + 1)..Len(log') :
                      /\ cacheKeyOf(log'[i].cat) = k
                      /\ log'[i].called /\ log'[i].stored
                      /\ cache'[k] = [data |-> log'[i].data,
                                      timestamp |-> log'[i].end]]_vars

\* C23 witness: an entry has expired, a fetch of its category called after
\* the expiry has failed, and the entry is still in the cache while the
\* entry of another key has been written since.
C23_Witness ==
    \E k \in DOMAIN cache :
        /\ now - cache[k].timestamp >= CACHE_DURATION
        /\ \E j \in 1..Len(log) :
              /\ cacheKeyOf(log[j].cat) = k
              /\ log[j].start - cache[k].timestamp >= CACHE_DURATION
              /\ log[j].called /\ ~log[j].stored
        /\ \E k2 \in DOMAIN cache : cache[k2].timestamp > cache[k].timestamp

\* The provider of a network category has failed: a transport error, a
\* non-OK status or a body that is no JSON array; for the growth series,
\* a transport error or a non-OK status of one of its requests.
FetchFailed(cat, nets) ==
    IF cat = "population_growth"
    THEN \E n \in 1..Len(nets) : nets[n].kind \in {"reject", "status"}
    ELSE nets[1].kind # "array"

\* After a fetch that stored nothing, no fetch of the category having
\* succeeded while it was out, the next fetch of the category has called
\* the provider again.
RefetchedAfterFailure ==
    \A i \in 1..Len(log) : \A j \in 1..Len(log) :
        (/\ Sequential(i, j)
         /\ log[i].called /\ ~log[i].stored
         /\ \A k \in 1..(i - 1) :
               (log[k].cat = log[i].cat /\ log[k].stored) => k <= log[i].after)
           => log[j].called /\ ~log[j].hit

\* C27: the step in which a ranking or growth fetch learns that its
\* provider has failed leaves the cache as it was and returns the bundled
\* list (the empty series for growth) unstored; and after a fetch that
\* stored nothing, no fetch of the category having succeeded while it was
\* out, the next fetch of the category calls the provider again, within
\* the TTL window too.
C27_FailureNotStored ==
    [][/\ (Len(log') = Len(log) + 1 /\ response' # <<>>
           /\ FetchFailed(log'[Len(log')].cat, response'))
             => /\ cache' = cache
                /\ ~log'[Len(log')].stored
                /\ log'[Len(log')].data =
                       (IF log'[Len(log')].cat = "top_populated" THEN fallbackPopulation
                        ELSE IF log'[Len(log')].cat = "top_gdp" THEN fallbackGDP
                        ELSE <<>>)
       /\ RefetchedAfterFailure']_vars

\* C27 witness: a GDP fetch has failed and the next GDP fetch, called at
\* the same instant, has gone to the provider again; the population entry
\* stored before the failure is still the cache's.
C27_Witness ==
    \E i \in 1..Len(log) : \E j \in 1..Len(log) :
        /\ Sequential(i, j)
        /\ log[i].cat = "top_gdp"
        /\ log[i].called /\ ~log[i].stored /\ log[i].data = fallbackGDP
        /\ log[j].start = log[i].end
        /\ log[j].called
        /\ cacheKeyOf("top_gdp") \notin DOMAIN cache
        /\ cacheKeyOf("top_populated") \in DOMAIN cache
        /\ cache[cacheKeyOf("top_populated")].timestamp < log[i].end

\* Fetches i and j of the log were out together: each was called before
\* the other settled.
Overlapping(i, j) ==
    /\ i # j
    /\ log[i].cat = log[j].cat
    /\ log[i].after < j
    /\ log[j].after < i

\* Of two fetches of a category that were out together, each has called
\* the provider; an enrichment call that had a document to fetch and was
\* not answered from the cache has had a response of its own.
EachCalledProvider ==
    /\ \A i \in 1..Len(log) : \A j \in 1..Len(log) :
          Overlapping(i, j) => log[i].called /\ ~log[i].hit
    /\ \A e \in 1..Len(settled) :
          LET c == selectCalls[settled[e].call]
          IN  (~settled[e].hit /\ getFactbookPath(c.cca3, c.common) # "")
                 => settled[e].net # "none"

\* C24: there is no sharing of requests in flight.  When two fetches of a
\* network category, or two enrichment calls for one country, are out
\* together, the answer to one settles that one alone: the other still
\* waits for the answer to its own provider call, and in the end each has
\* called the provider.
C24_NoInFlightSharing ==
    [][/\ \A p \in pending : \A q \in pending :
             (p # q /\ p.cat = q.cat /\ p \notin pending')
                => /\ q \in pending'
                   /\ Len(log') = Len(log) + 1
                   /\ log'[Len(log')].mount = p.mount
                   /\ log'[Len(log')].called
       /\ \A i \in selections : \A j \in selections :
             (/\ i # j
              /\ factbookKey(selectCalls[i]) = factbookKey(selectCalls[j])
              /\ i \notin selections')
                => /\ j \in selections'
                   /\ Len(settled') = Len(settled) + 1
                   /\ settled'[Len(settled')].call = i
                   /\ settled'[Len(settled')].net # "none"
       /\ EachCalledProvider']_vars

\* C24 witness: two population fetches were out together, the first
\* answered stored its result, and the second has nevertheless settled on a
\* provider call of its own.
C24_Witness ==
    \E i \in 1..Len(log) : \E j \in 1..Len(log) :
        /\ Overlapping(i, j) /\ i < j
        /\ log[i].cat = "top_populated"
        /\ log[i].called /\ log[i].stored
        /\ log[j].called /\ ~log[j].hit
        /\ log[j].data # log[i].data

\* Two enrichment calls for one country were out together and each has
\* settled on a response of its own.
C24_EnrichmentTwice ==
    \E a \in 1..Len(settled) : \E b \in 1..Len(settled) :
        /\ a < b
        /\ settled[a].call > settled[b].call
        /\ selectCalls[settled[a].call] = selectCalls[settled[b].call]
        /\ settled[a].net = "object" /\ settled[b].net = "status"

\* Of two fetches of a category that were out together and have both
\* stored their results, no later fetch of the category having stored its
\* own, the cache entry of the category is what the one settled last
\* stored: its payload, stamped with its settling time.
LastWriteWins ==
    \A i \in 1..Len(log) : \A j \in 1..Len(log) :
        (/\ Overlapping(i, j) /\ i < j
         /\ log[i].stored /\ log[j].stored
         /\ \A k \in (j + 1)..Len(log) : log[k].cat = log[j].cat => ~log[k].stored)
           => /\ cacheKeyOf(log[j].cat) \in DOMAIN cache
              /\ cache[cacheKeyOf(log[j].cat)] =
                     [data |-> log[j].data, timestamp |-> log[j].end]

\* C25: concurrent writes to a key are last-write-wins: after two fetches
\* of a category that were out together have both succeeded, the entry
\* holds the payload and the timestamp of the one whose provider call
\* completed last; and the step in which a fetch writes its key leaves the
\* entries of all other keys as they were.
C25_LastWriteWins ==
    [][/\ LastWriteWins'
       /\ (Len(log') = Len(log) + 1 /\ response' # <<>>)
             => \A k \in DOMAIN cache :
                   k # cacheKeyOf(log'[Len(log')].cat) => cache'[k] = cache[k]]_vars

\* C25 witness: two GDP fetches were out together; the one called first was
\* answered last, with another payload at a later time, and the entry is
\* its result, next to the population entry written before.
C25_Witness ==
    \E i \in 1..Len(log) : \E j \in 1..Len(log) :
        /\ Overlapping(i, j) /\ i < j
        /\ log[i].cat = "top_gdp"
        /\ log[j].mount < log[i].mount
        /\ log[i].stored /\ log[j].stored
        /\ log[i].data # log[j].data
        /\ log[i].end < log[j].end
        /\ cache[cacheKeyOf("top_gdp")] = [data |-> log[j].data, timestamp |-> log[j].end]
        /\ cacheKeyOf("top_populated") \in DOMAIN cache
        /\ cache[cacheKeyOf("top_populated")].timestamp < log[j].end

\* The series a growth fetch returns when none of its requests failed: one
\* per country whose payload carried a data array, in the order of the
\* requests.
RECURSIVE SeriesCountries(_)
SeriesCountries(nets) ==
    IF nets = <<>> THEN <<>>
    ELSE (IF Head(nets).kind = "array" THEN <<Len(growthCountries) - Len(nets) + 1>>
          ELSE <<>>) \o SeriesCountries(Tail(nets))

\* C29: the requests of a growth fetch stand or fall together.  When one of
\* them ends in a transport error or a non-OK status the fetch returns the
\* empty list and the cache is left as it was, whatever the other requests
\* brought; when none fails, a country whose payload carries no data array
\* is left out, the others' series are returned in request order and the
\* result is stored under the growth key.
C29_GrowthCoupled ==
    [][(/\ Len(log') = Len(log) + 1 /\ response' # <<>>
        /\ log'[Len(log')].cat = "population_growth")
          => LET fetched == log'[Len(log')]
                 kept == SeriesCountries(response')
                 key == cacheKeyOf("population_growth")
             IN  IF \E n \in 1..Len(response') : response'[n].kind \in {"reject", "status"}
                 THEN /\ fetched.data = <<>>
                      /\ ~fetched.stored
                      /\ cache' = cache
                 ELSE /\ Len(fetched.data) = Len(kept)
                      /\ \A k \in 1..Len(kept) :
                            fetched.data[k].country = growthCountries[kept[k]]
                      /\ fetched.stored
                      /\ cache'[key] = [data |-> fetched.data, timestamp |-> fetched.end]]_vars

\* C29 witness: a growth fetch whose second country had no data array has
\* stored the first country's series alone; a later one, whose first request
\* brought an array and whose second met a transport error, has returned the
\* empty list, and the entry is still the earlier fetch's.
C29_Witness ==
    /\ Len(log) >= 2
    /\ response # <<>>
    /\ LastFetch.cat = "population_growth"
    /\ response[1].kind = "array" /\ response[2].kind = "reject"
    /\ LastFetch.data = <<>> /\ ~LastFetch.stored
    /\ \E i \in 1..(Len(log) - 1) :
          /\ log[i].cat = "population_growth" /\ log[i].stored
          /\ Len(log[i].data) = 1
          /\ log[i].data[1].country = growthCountries[1]
          /\ cache[cacheKeyOf("population_growth")] =
                 [data |-> log[i].data, timestamp |-> log[i].end]

\* C9: every call of a fetch function that has settled has resolved with a
\* value; none has rejected.
C9_FetchesResolve ==
    /\ \A i \in 1..Len(log) : log[i].status = "resolved"
    /\ \A i \in 1..Len(settled) : settled[i].status = "resolved"

\* A population fetch has settled on a transport error.
C9_Witness ==
    /\ response # <<>> /\ LastFetch.cat = "top_populated"
    /\ response[1].kind = "reject"
    /\ LastFetch.status = "resolved"

\* C11: every list a ranking fetch (population or GDP) returns, from the
\* live provider, from the cache or from the catch block, is sorted in
\* descending order of value and has at most ten elements.
C11_RankingsSortedTopTen ==
    \A i \in 1..Len(log) :
        log[i].cat \in RankingCats
            => /\ Len(log[i].data) <= 10
               /\ \A a \in 1..Len(log[i].data) : \A b \in 1..Len(log[i].data) :
                     a < b => log[i].data[a].value >= log[i].data[b].value

\* A live population ranking cut from eleven unsorted-by-rank items to ten,
\* returned again from the cache, next to a GDP list from the catch block.
C11_Witness ==
    \E i \in 1..Len(log) : \E j \in 1..Len(log) : \E k \in 1..Len(log) :
        /\ log[i].cat = "top_populated" /\ log[i].stored /\ Len(log[i].data) = 10
        /\ log[i].data[1].value = TopN + 1
        /\ log[j].cat = "top_populated" /\ log[j].hit /\ log[j].data = log[i].data
        /\ log[k].cat = "top_gdp" /\ log[k].called /\ ~log[k].stored

\* The series of country code in a growth result (the empty set when the
\* result has none).
SeriesOf(data, code) == {k \in 1..Len(data) : data[k].country = code}

\* C12: in every growth series returned by fetchPopulationGrowthData the
\* points are in ascending order of year; a year whose observation is null
\* in the response has no point, every other observation has its point, and
\* no point stands for a year the response does not carry.
C12_SeriesAscendingNoFill ==
    /\ \A i \in 1..Len(log) :
          log[i].cat = "population_growth"
              => \A k \in 1..Len(log[i].data) :
                    LET pts == log[i].data[k].data
                    IN  \A a \in 1..Len(pts) : \A b \in 1..Len(pts) :
                            a < b => pts[a].year <= pts[b].year
    /\ response # <<>> /\ LastFetch.cat = "population_growth" /\ LastFetch.stored
          => \A c \in 1..Len(growthCountries) :
                response[c].kind = "array"
                    => \E k \in SeriesOf(LastFetch.data, growthCountries[c]) :
                          LET pts == LastFetch.data[k].data
                              obs == response[c].body
                          IN  /\ \A o \in 1..Len(obs) :
                                    IF obs[o].value = 0
                                    THEN \A a \in 1..Len(pts) : pts[a].year # obs[o].date
                                    ELSE \E a \in 1..Len(pts) :
                                            pts[a] = [year |-> obs[o].date,
                                                      population |-> obs[o].value]
                              /\ \A a \in 1..Len(pts) : \E o \in 1..Len(obs) :
                                    obs[o].date = pts[a].year /\ obs[o].value # 0

\* A response listing the years newest first, one of them without a value,
\* has been turned into a series.
C12_Witness ==
    /\ response # <<>> /\ LastFetch.cat = "population_growth" /\ LastFetch.stored
    /\ \E c \in 1..Len(growthCountries) :
          /\ response[c].kind = "array"
          /\ \E o \in 1..Len(response[c].body) : response[c].body[o].value = 0
          /\ response[c].body[1].date > response[c].body[Len(response[c].body)].date
          /\ \E k \in SeriesOf(LastFetch.data, growthCountries[c]) :
                Len(LastFetch.data[k].data) = 2

\* C13: when the provider of the growth series fails, the fetch returns a
\* non-empty bundled dataset shaped and sorted like a successful response:
\* series of a country each, with points in ascending order of year.
C13_GrowthFallbackNonEmpty ==
    response # <<>> /\ LastFetch.cat = "population_growth"
        /\ (\E c \in 1..Len(growthCountries) : response[c].kind # "array")
        => /\ LastFetch.data # <<>>
           /\ \A k \in 1..Len(LastFetch.data) :
                 LET pts == LastFetch.data[k].data
                 IN  \A a \in 1..Len(pts) : \A b \in 1..Len(pts) :
                         a < b => pts[a].year <= pts[b].year

(***************************************************************************)
(* Claims about the selection flow                                         *)
(***************************************************************************)
\* C7: once every enrichment request has completed, the selected country is
\* the one selected last; the response of an earlier selection that arrives
\* late is discarded.
C7_LatestSelectionWins ==
    selections = {} /\ Len(selectCalls) >= 2
        => /\ selectedCountry # <<>>
           /\ selectedCountry[1].country = selectCalls[Len(selectCalls)]

\* Neither the code nor the common name of c is a key of the document table.
Unlisted(c) == c.cca3 \notin DOMAIN mappings /\ c.common \notin DOMAIN mappings

\* C14: for a country with no entry in the document table,
\* fetchAdditionalData makes no network call (the call never waits for a
\* response), raises nothing and returns the empty enrichment record, the
\* one it stores under the country's key.
C14_UnlistedCountryEmpty ==
    /\ \A i \in selections : ~Unlisted(selectCalls[i])
    /\ \A i \in 1..Len(settled) :
          LET c == selectCalls[settled[i].call]
          IN  Unlisted(c)
                  => /\ settled[i].net = "none"
                     /\ settled[i].status = "resolved"
                     /\ factbookKey(c) \in DOMAIN factbookCache
                     /\ factbookCache[factbookKey(c)] = {}

\* Niger has been selected after a listed country whose document arrived.
C14_Witness ==
    /\ Len(selectCalls) = 2 /\ selections = {} /\ Len(settled) = 2
    /\ ~Unlisted(selectCalls[1]) /\ Unlisted(selectCalls[2])
    /\ settled[2].call = 2 /\ settled[2].net = "none"
    /\ selectedCountry[1].extra = {}

\* The key of the enrichment call settled as entry e.
SettledKey(e) == factbookKey(selectCalls[settled[e].call])

\* The settled call whose stored result entry e was answered with: the last
\* call of the key that settled before e and was no hit (0: none).
StoredFor(e) ==
    LET S == {x \in 1..(e - 1) : SettledKey(x) = SettledKey(e) /\ ~settled[x].hit}
    IN  IF S = {} THEN 0 ELSE CHOOSE x \in S : \A y \in S : y <= x

\* C22: the TTL holds for the enrichment cache as well: a call is answered
\* from the cache, without a request, only when the result of its key was
\* stored less than CACHE_DURATION before.
C22_EnrichmentExpires ==
    \A e \in 1..Len(settled) :
        settled[e].hit
           => /\ StoredFor(e) # 0
              /\ settled[e].at - settled[StoredFor(e)].at < CACHE_DURATION

\* The enrichment call settled as entry s had a document to fetch and its
\* request met a transport error or a non-OK status.
EnrichmentFailed(s) == settled[s].net \in {"reject", "status"}

\* C28, as stated: once an enrichment call has failed, every later call
\* for the key is answered without a request and with the empty record.
C28_EmptyForGood ==
    \A s \in 1..Len(settled) : \A e \in 1..Len(settled) :
        (s < e /\ SettledKey(s) = SettledKey(e) /\ EnrichmentFailed(s) /\ settled[e].hit)
           => settled[e].net = "none" /\ settled[e].data = {}

\* C28, amended: an enrichment call whose request fails stores the empty
\* record under its key; a key once stored stays stored, whatever time
\* passes; a call for a stored key is answered at once with the entry of
\* its key and issues no request; and an entry changes only when a call of
\* its key that was already out settles.
C28_FailureCachedForGood ==
    [][/\ (/\ Len(settled') = Len(settled) + 1
           /\ settled'[Len(settled')].net \in {"reject", "status"})
             => LET key == factbookKey(selectCalls'[settled'[Len(settled')].call])
                IN  /\ key \in DOMAIN factbookCache'
                    /\ factbookCache'[key] = {}
                    /\ settled'[Len(settled')].data = {}
       /\ DOMAIN factbookCache \subseteq DOMAIN factbookCache'
       /\ (/\ Len(selectCalls') = Len(selectCalls) + 1
           /\ factbookKey(selectCalls'[Len(selectCalls')]) \in DOMAIN factbookCache)
             => /\ selections' = selections
                /\ factbookCache' = factbookCache
                /\ Len(settled') = Len(settled) + 1
                /\ settled'[Len(settled')].hit
                /\ settled'[Len(settled')].net = "none"
                /\ settled'[Len(settled')].data =
                       factbookCache[factbookKey(selectCalls'[Len(selectCalls')])]
       /\ \A k \in DOMAIN factbookCache :
             factbookCache'[k] # factbookCache[k]
                => \E i \in selections \ selections' : factbookKey(selectCalls[i]) = k]_vars

\* C28 witness: a request met a transport error, and a call for the same
\* country made CACHE_DURATION later was answered from the cache with the
\* empty record.
C28_Witness ==
    \E s \in 1..Len(settled) : \E e \in 1..Len(settled) :
        /\ s < e /\ SettledKey(s) = SettledKey(e)
        /\ settled[s].net = "reject"
        /\ settled[e].hit /\ settled[e].net = "none" /\ settled[e].data = {}
        /\ settled[e].at - settled[s].at >= CACHE_DURATION

\* C18: a selection whose enrichment call has completed, successfully or
\* not, is no longer pending and is never requested again; at its
\* completion selectedCountry is set to its record, with the enrichment
\* fields merged in when the call delivered some and bare when the call
\* failed.
C18_SelectionReachesReady ==
    /\ \A i \in 1..Len(settled) :
          /\ settled[i].call \notin selections
          /\ \A j \in 1..Len(settled) : settled[j].call = settled[i].call => j = i
    /\ settled # <<>>
          => LET last == settled[Len(settled)]
                 country == selectCalls[last.call]
             IN  /\ selectedCountry =
                        <<[country |-> country,
                           extra |-> factbookCache[factbookKey(country)]]>>
                 /\ last.net \in {"reject", "status", "unparseable"}
                        => selectedCountry[1].extra = {}

\* One selection has received its document and the next one an error.
C18_Witness ==
    /\ Len(settled) = 2 /\ selections = {}
    /\ settled[1].net = "object" /\ settled[2].net = "reject"
    /\ \E k \in DOMAIN factbookCache : factbookCache[k] # {}
    /\ selectedCountry = <<[country |-> selectCalls[settled[2].call], extra |-> {}]>>

(***************************************************************************)
(* Claims about the parse functions                                        *)
(***************************************************************************)
AllSpaces(s, a, b) == \A k \in a..b : s[k] = " "
AllDigits(s, a, b) == \A k \in a..b : isDigit(s[k])
AllLetters(s, a, b) == \A k \in a..b : isLetter(s[k])

\* A numeric percentage set off from the text before it begins at index i
\* of s: white space, an integer or decimal number, a percent sign.
PercentageAt(s, i) ==
    \E a \in i..Len(s) : \E b \in (a + 1)..(Len(s) - 1) :
        /\ AllSpaces(s, i, a)
        /\ AllDigits(s, a + 1, b)
        /\ \/ s[b + 1] = "%"
           \/ /\ s[b + 1] = "."
              /\ \E c \in (b + 2)..(Len(s) - 1) :
                    AllDigits(s, b + 2, c) /\ s[c + 1] = "%"

\* The text before the first occurrence of character c in s.
Before(s, c) ==
    LET n == CHOOSE m \in 0..Len(s) :
                 /\ \A k \in 1..m : s[k] # c
                 /\ (m = Len(s) \/ s[m + 1] = c)
    IN  SubSeq(s, 1, n)

\* s up to the first index of the set at, all of s when the set is empty.
UpToFirst(s, at) ==
    IF at = {} THEN s
    ELSE SubSeq(s, 1, (CHOOSE i \in at : \A j \in at : i <= j) - 1)

\* The religion of a text, as documented.
ReligionOf(t) ==
    LET entry == trim(Before(t, ","))
    IN  trim(UpToFirst(entry, {i \in 1..Len(entry) : PercentageAt(entry, i)}))

TitleUpTo(s, T, n) ==
    /\ n > Len(T) /\ n <= Len(s)
    /\ EqualsIgnoringCase(SubSeq(s, 1, Len(T)), T)
    /\ AllSpaces(s, Len(T) + 1, n)
    /\ (n = Len(s) \/ s[n + 1] # " ")

WithoutTitle(s) ==
    IF \E T \in Titles : \E n \in 1..Len(s) : TitleUpTo(s, T, n)
    THEN LET n == CHOOSE m \in 1..Len(s) : \E T \in Titles : TitleUpTo(s, T, m)
         IN  SubSeq(s, n + 1, Len(s))
    ELSE s

\* A parenthetical beginning with "since", with the white space before it,
\* begins at index i of s.
SinceAt(s, i) ==
    \E a \in i..Len(s) :
        /\ AllSpaces(s, i, a)
        /\ a + Len(Since) <= Len(s)
        /\ SubSeq(s, a + 1, a + Len(Since)) = Since
        /\ \E k \in (a + Len(Since) + 1)..Len(s) : s[k] = ")"

\* Word w occurs in s in some letter case.
Mentions(s, w) ==
    \E i \in 1..(Len(s) - Len(w) + 1) :
        EqualsIgnoringCase(SubSeq(s, i, i + Len(w) - 1), w)

\* The head of state of a text, as documented.
HeadOfStateOf(t) ==
    LET named == WithoutTitle(t)
        rest == trim(UpToFirst(named, {i \in 1..Len(named) : SinceAt(named, i)}))
    IN  IF Mentions(rest, Vacant) \/ Mentions(rest, Acting) THEN PositionVacantActing
        ELSE IF rest = <<>> THEN NotAvailable
        ELSE rest

DateAt(s, i, j) ==
    /\ isDigit(s[i])
    /\ j - 7 >= i
    /\ AllDigits(s, j - 3, j)
    /\ \E a \in i..(j - 7) :
          /\ AllDigits(s, i, a)
          /\ isSpace(s[a + 1])
          /\ \E b \in (a + 1)..(j - 6) :
                /\ AllSpaces(s, a + 1, b)
                /\ isLetter(s[b + 1])
                /\ \E c \in (b + 1)..(j - 5) :
                      /\ AllLetters(s, b + 1, c)
                      /\ AllSpaces(s, c + 1, j - 4)

\* A bare four-digit year begins at index i of s: four digits with no
\* letter, digit or underscore next to them.
BareYearAt(s, i) ==
    /\ i + 3 <= Len(s)
    /\ AllDigits(s, i, i + 3)
    /\ (i > 1 => ~isLetter(s[i - 1]) /\ ~isDigit(s[i - 1]) /\ s[i - 1] # "_")
    /\ (i + 4 <= Len(s) => ~isLetter(s[i + 4]) /\ ~isDigit(s[i + 4]) /\ s[i + 4] # "_")

HasDate(t) == \E i \in 1..Len(t) : \E j \in i..Len(t) : DateAt(t, i, j)
HasBareYear(t) == \E i \in 1..Len(t) : BareYearAt(t, i)

\* C17: the independence date is extracted by the first rule that applies:
\* the first day-month-year pattern; else the first bare four-digit year;
\* else the trimmed text before the first parenthesis; else, that text being
\* empty, "Not Available"; "4 July 1776 (from Great Britain)" gives
\* "4 July 1776".
C17_IndependencePriority ==
    parsed # <<>> /\ parsed[1].fn = "parseIndependence"
        => /\ HasDate(text)
                => \E i \in 1..Len(text) : \E j \in i..Len(text) :
                      /\ DateAt(text, i, j)
                      /\ \A k \in 1..(i - 1) : \A l \in k..Len(text) : ~DateAt(text, k, l)
                      /\ parsed[1].out = SubSeq(text, i, j)
           /\ ~HasDate(text) /\ HasBareYear(text)
                => \E i \in 1..Len(text) :
                      /\ BareYearAt(text, i)
                      /\ \A k \in 1..(i - 1) : ~BareYearAt(text, k)
                      /\ parsed[1].out = SubSeq(text, i, i + 3)
           /\ ~HasDate(text) /\ ~HasBareYear(text)
                => parsed[1].out =
                       (IF trim(Before(text, "(")) = <<>> THEN NotAvailable
                        ELSE trim(Before(text, "(")))
           /\ text = ExampleIndependence => parsed[1].out = <<"4", " ", "J", "u", "l", "y", " ", "1", "7", "7", "6">>

\* The documented example has been parsed: the date wins over the year it
\* contains.
C17_Witness ==
    /\ parsed # <<>> /\ parsed[1].fn = "parseIndependence"
    /\ text = ExampleIndependence
    /\ HasDate(text) /\ HasBareYear(text)
    /\ parsed[1].out = <<"4", " ", "J", "u", "l", "y", " ", "1", "7", "7", "6">>

=============================================================================
